---- MODULE Spec2Model ----
\* A model of the AppleTV session facade of node-appletv (src/lib/appletv.ts):
\* the openConnection handshake, the listener-driven polling timer, the
\* messageOfType waits, key commands and artwork requests.
EXTENDS Integers, Sequences, FiniteSets, TLC

VARIABLES
  isOpen,          \* connection.isOpen
  sent,            \* messages handed to connection.send, in order
  pairingId,       \* this.pairingId
  credentials,     \* this.credentials (NoCreds or a credentials object)
  credKeys,        \* per credentials object: its readKey and writeKey
  listeners,       \* per event: number of on() and once() listeners
  queuePollTimer,  \* this.queuePollTimer (Null or a timer handle)
  activeTimers,    \* interval timers set and not cleared
  pollPending,     \* tick requests whose sendMessage still awaits load()
  openCalls,       \* the openConnection calls
  received,        \* the types of the inbound messages given to onReceiveMessage,
                   \* in order
  emitted,         \* the last inbound message and the notifications the session
                   \* emitted for it, in order
  waits,           \* the messageOfType calls, each with the time left on its timer
  keyCalls,        \* the sendKeyCommand calls
  artCalls         \* the requestArtwork calls

vars == <<isOpen, sent, pairingId, credentials, credKeys, listeners,
          queuePollTimer, activeTimers, pollPending,
          openCalls, received, emitted, waits, keyCalls, artCalls>>

connVars == <<isOpen, sent>>
credVars == <<pairingId, credentials, credKeys>>
pollVars == <<listeners, queuePollTimer, activeTimers>>
tickVars == <<pollPending>>
waitVars == <<waits>>
callVars == <<keyCalls, artCalls>>

\* ---------------------------------------------------------------- bounds
MaxSent == 4
MaxListeners == 2
MaxPending == 1
MaxInbound == 2
MaxOpens == 2
MaxWaits == 2
MaxKeyCalls == 2
MaxArtCalls == 2

\* ------------------------------------------------------------- constants
Null == 0
NoCreds == "none"
CredIds == {"credA", "credB"}
UuidId == "uuid"
PairingIdOf(c) == IF c = "credA" THEN "pairA" ELSE "pairB"

Events == {"nowPlaying", "supportedCommands", "playbackQueue"}
Kinds == {"on", "once"}

\* ------------------------------------------------ listeners and polling
\* the events whose listeners keep the polling timer alive
Watched(event) == event = "nowPlaying" \/ event = "supportedCommands"

\* EventEmitter.listenerCount
ListenerCount(ls, event) == ls[event].on + ls[event].once

TotalListeners(ls) ==
  ListenerCount(ls, "nowPlaying") + ListenerCount(ls, "supportedCommands")
    + ListenerCount(ls, "playbackQueue")

WatchedCount(ls) ==
  ListenerCount(ls, "nowPlaying") + ListenerCount(ls, "supportedCommands")

\* setInterval hands out a new handle: one that is neither held by the
\* session nor of a timer still running
NextTimer(ts) ==
  CHOOSE t \in 1..(Cardinality(ts.active) + 2) :
    /\ t \notin ts.active \cup {ts.timer}
    /\ \A u \in 1..(t - 1) : u \in ts.active \cup {ts.timer}

\* (mutant) a timer is set for every new watched listener
StartsTimerAlways(timer, event) == Watched(event)

\* onNewListener: the condition under which a polling timer is set
StartsTimer(timer, event) == timer = Null /\ Watched(event)

\* (mutant) the listeners of the removed listener's own event are counted alone
StopsTimerPerEvent(timer, event, ls) ==
  timer # Null /\ Watched(event) /\ ListenerCount(ls, event) = 0

\* onRemoveListener: the condition under which the polling timer is cleared;
\* ls holds the listeners left after the removal
StopsTimer(timer, event, ls) ==
  /\ timer # Null
  /\ Watched(event)
  /\ ListenerCount(ls, "nowPlaying") + ListenerCount(ls, "supportedCommands") = 0

\* the timer state after onNewListener(event); ts = [timer, active]
OnNewListener(ts, event) ==
  IF StartsTimer(ts.timer, event)
    THEN [timer |-> NextTimer(ts), active |-> ts.active \cup {NextTimer(ts)}]
    ELSE ts

\* the timer state after onRemoveListener(event), ls the listeners left
OnRemoveListener(ts, event, ls) ==
  IF StopsTimer(ts.timer, event, ls)
    THEN [timer |-> Null, active |-> ts.active \ {ts.timer}]
    ELSE ts

TimerState == [timer |-> queuePollTimer, active |-> activeTimers]

\* EventEmitter.removeListener: the listener is taken out, then 'removeListener'
\* is emitted; st = [ls, ts]
RemoveOne(st, event, kind) ==
  LET ls2 == [st.ls EXCEPT ![event][kind] = @ - 1]
  IN  [ls |-> ls2, ts |-> OnRemoveListener(st.ts, event, ls2)]

\* EventEmitter.emit(event): each once() listener removes itself when called
RECURSIVE EmitEvent(_, _)
EmitEvent(st, event) ==
  IF st.ls[event].once = 0 THEN st
  ELSE EmitEvent(RemoveOne(st, event, "once"), event)

\* this.on(event, l) / this.once(event, l): 'newListener' is emitted, then the
\* listener is added
AddListener(event, kind) ==
  /\ TotalListeners(listeners) < MaxListeners
  /\ LET ts == OnNewListener(TimerState, event)
     IN  /\ queuePollTimer' = ts.timer
         /\ activeTimers' = ts.active
  /\ listeners' = [listeners EXCEPT ![event][kind] = @ + 1]
  /\ UNCHANGED <<connVars, credVars, tickVars, openCalls, received, emitted,
                 waitVars,
                 callVars>>

\* this.removeListener(event, l)
RemoveListener(event, kind) ==
  /\ listeners[event][kind] > 0
  /\ LET st == RemoveOne([ls |-> listeners, ts |-> TimerState], event, kind)
     IN  /\ listeners' = st.ls
         /\ queuePollTimer' = st.ts.timer
         /\ activeTimers' = st.ts.active
  /\ UNCHANGED <<connVars, credVars, tickVars, openCalls, received, emitted,
                 waitVars,
                 callVars>>

\* EventEmitter.removeAllListeners(event): the listeners of the event are
\* removed one by one, each removal emitting 'removeListener'
RECURSIVE RemoveEach(_, _)
RemoveEach(st, event) ==
  IF st.ls[event].once > 0 THEN RemoveEach(RemoveOne(st, event, "once"), event)
  ELSE IF st.ls[event].on > 0 THEN RemoveEach(RemoveOne(st, event, "on"), event)
  ELSE st

\* this.removeAllListeners(event)
RemoveAllListeners(event) ==
  /\ ListenerCount(listeners, event) > 0
  /\ LET st == RemoveEach([ls |-> listeners, ts |-> TimerState], event)
     IN  /\ listeners' = st.ls
         /\ queuePollTimer' = st.ts.timer
         /\ activeTimers' = st.ts.active
  /\ UNCHANGED <<connVars, credVars, tickVars, openCalls, received, emitted,
                 waitVars,
                 callVars>>

\* ------------------------------------------------------- outbound sends
\* a key field not written yet
NoKey == <<"none", 0>>

\* whether a credentials object carries both keys (the message is encrypted)
HasKeys(c) ==
  c # NoCreds /\ credKeys[c].readKey # NoKey /\ credKeys[c].writeKey # NoKey

\* connection.send(message, waitForResponse, priority, this.credentials): the
\* message is handed to the connection with the session's credentials of that
\* moment
ConnectionSend(from, type, body, waitForResponse) ==
  sent' = Append(sent, [from |-> from, type |-> type, body |-> body,
                        wait |-> waitForResponse,
                        enc |-> HasKeys(credentials), open |-> isOpen])

\* a JavaScript object used as a condition is truthy whatever its fields hold
Truthy(options, field) == field \in DOMAIN options

\* requestPlaybackQueueWithWait: the payload built from the options
PlaybackQueueParams(options, requestID) ==
  LET params == options @@ ("requestID" :> requestID)
  IN  IF Truthy(options, "artworkSize")
        THEN [f \in (DOMAIN params \ {"artworkSize"})
                      \cup {"artworkWidth", "artworkHeight"} |->
                IF f = "artworkWidth" THEN options.artworkSize.width
                ELSE IF f = "artworkHeight" THEN options.artworkSize.height
                ELSE params[f]]
        ELSE params

\* the options of a polling tick's request
PollOptions ==
  [length |-> 100, location |-> 0, artworkSize |-> [width |-> -1, height |-> 368]]

\* whether a tick of the polling timer requests the playback queue
TickRequests(open) == open

\* a tick of the interval timer: the request is made if the connection is
\* open; its sendMessage then awaits load()
PollTick(t) ==
  /\ t \in activeTimers
  /\ IF TickRequests(isOpen)
       THEN /\ pollPending < MaxPending
            /\ pollPending' = pollPending + 1
       ELSE UNCHANGED pollPending
  /\ UNCHANGED <<connVars, credVars, pollVars, openCalls, received, emitted,
                 waitVars,
                 callVars>>

\* sendMessage of a tick's request, after load(): connection.send, not waiting;
\* the tick's promise chain swallows the outcome
PollSend ==
  /\ pollPending > 0
  /\ Len(sent) < MaxSent
  /\ pollPending' = pollPending - 1
  /\ ConnectionSend(<<"poll", 0>>, "PlaybackQueueRequestMessage",
                    PlaybackQueueParams(PollOptions, UuidId), FALSE)
  /\ UNCHANGED <<isOpen, credVars, pollVars, openCalls, received, emitted,
                 waitVars,
                 callVars>>

\* --------------------------------------------------------- openConnection
OpenIds == 1..MaxOpens

IdleOpen == [pc |-> "idle", creds |-> NoCreds, introId |-> UuidId,
             hist |-> <<>>, error |-> "none", opened |-> FALSE]

IntroductionBody(id) == [uniqueIdentifier |-> id, name |-> "node-appletv"]

ClientUpdatesBody ==
  [nowPlayingUpdates |-> TRUE, artworkUpdates |-> TRUE,
   keyboardUpdates |-> FALSE, volumeUpdates |-> FALSE]

\* Connection.open() resolves with the transport established
OpenedConnection == TRUE

\* Connection.close() tears the transport down
ClosedConnection == FALSE

\* Connection.open() succeeds on a connection that is not open; calling it
\* while already open is an error
OpenSucceeds(open) == ~open

\* a response arrives only over an open connection
ResponseArrives(open) == open

\* Connection.close() fails the responses the connection still waits for:
\* an openConnection awaiting the introduction's response rejects
FailedByClose(pc) == pc = "introWait"

\* the pairing identity the session uses once openConnection(c) has begun
PairingIdFor(c, current) == IF c # NoCreds THEN PairingIdOf(c) ELSE current

\* (mutant) the connection state is announced whether or not credentials
\* were given
AfterIntroductionUnguarded(c) == IF c # NoCreds THEN "verifying" ELSE "connStateLoad"

\* where openConnection goes once the introduction is acknowledged
AfterIntroduction(c) == IF c # NoCreds THEN "verifying" ELSE "resolved"

\* (mutant) the connection-state send is left out
AfterVerifySkipsState == "cucLoad"

\* where openConnection goes once the keys are installed
AfterVerify == "connStateLoad"

\* where openConnection goes once the connection state is sent
AfterConnectionState(c) == IF c # NoCreds THEN "cucLoad" ELSE "resolved"

\* the error a failing step rejects openConnection with
StepError(pc) ==
  CASE pc = "connecting" -> "connect"
    [] pc = "introWait" -> "introduction"
    [] pc = "verifying" -> "verify"
    [] pc = "connStateWait" -> "connectionState"
    [] pc = "cucWait" -> "clientUpdatesConfig"
    [] OTHER -> "none"

Step(k, pc, what) ==
  [openCalls EXCEPT ![k].pc = pc, ![k].hist = Append(@, what)]

\* openConnection(credentials), up to the await of connection.open()
OpenConnection(k, c) ==
  /\ openCalls[k].pc = "idle"
  /\ pairingId' = PairingIdFor(c, pairingId)
  /\ openCalls' = [openCalls EXCEPT ![k].pc = "connecting", ![k].creds = c,
                                    ![k].hist = <<"open">>]
  /\ UNCHANGED <<connVars, credentials, credKeys, pollVars, tickVars, received, emitted,
                 waitVars, callVars>>

\* connection.open() resolves; sendIntroduction builds its body and its
\* sendMessage awaits load()
ConnectionOpened(k) ==
  /\ openCalls[k].pc = "connecting"
  /\ OpenSucceeds(isOpen)
  /\ isOpen' = OpenedConnection
  /\ openCalls' = [openCalls EXCEPT ![k].pc = "introLoad", ![k].opened = TRUE,
                                    ![k].introId = pairingId,
                                    ![k].hist = Append(@, "opened")]
  /\ UNCHANGED <<sent, credVars, pollVars, tickVars, received, emitted,
                 waitVars, callVars>>

\* the introduction is handed to the connection, waiting for the response
IntroductionSend(k) ==
  /\ openCalls[k].pc = "introLoad"
  /\ Len(sent) < MaxSent
  /\ ConnectionSend(<<"open", k>>, "DeviceInfoMessage",
                    IntroductionBody(openCalls[k].introId), TRUE)
  /\ openCalls' = Step(k, "introWait", "introduction")
  /\ UNCHANGED <<isOpen, credVars, pollVars, tickVars, received, emitted,
                 waitVars, callVars>>

\* the response to the introduction arrives: this.credentials = credentials
IntroductionAcked(k) ==
  /\ openCalls[k].pc = "introWait"
  /\ ResponseArrives(isOpen)
  /\ credentials' = openCalls[k].creds
  /\ openCalls' = Step(k, AfterIntroduction(openCalls[k].creds), "introductionAck")
  /\ UNCHANGED <<connVars, pairingId, credKeys, pollVars, tickVars, received, emitted,
                 waitVars, callVars>>

\* (mutant) only the read key is written
VerifiedKeysReadOnly(k) == [readKey |-> <<"read", k>>, writeKey |-> NoKey]

\* the keys the verification of openConnection call k derives
VerifiedKeys(k) == [readKey |-> <<"read", k>>, writeKey |-> <<"write", k>>]

\* verifier.verify() resolves: the keys are written into this.credentials,
\* and sendConnectionState awaits load(); with this.credentials unset
\* meanwhile the write throws
VerifyDone(k) ==
  /\ openCalls[k].pc = "verifying"
  /\ IF credentials = NoCreds
       THEN /\ openCalls' = [openCalls EXCEPT ![k].pc = "rejected",
                                              ![k].error = "TypeError"]
            /\ UNCHANGED credKeys
       ELSE /\ credKeys' = [credKeys EXCEPT ![credentials] = VerifiedKeys(k)]
            /\ openCalls' = Step(k, AfterVerify, "verify")
  /\ UNCHANGED <<connVars, pairingId, credentials, pollVars, tickVars, received, emitted,
                 waitVars, callVars>>

\* the connection-state message is handed to the connection, not waiting
ConnectionStateSend(k) ==
  /\ openCalls[k].pc = "connStateLoad"
  /\ Len(sent) < MaxSent
  /\ ConnectionSend(<<"open", k>>, "SetConnectionStateMessage",
                    [state |-> "Connected"], FALSE)
  /\ openCalls' = Step(k, "connStateWait", "connectionState")
  /\ UNCHANGED <<isOpen, credVars, pollVars, tickVars, received, emitted,
                 waitVars, callVars>>

\* the connection-state send resolves; sendClientUpdatesConfig awaits load()
ConnectionStateDone(k) ==
  /\ openCalls[k].pc = "connStateWait"
  /\ openCalls' = Step(k, AfterConnectionState(openCalls[k].creds),
                       "connectionStateDone")
  /\ UNCHANGED <<connVars, credVars, pollVars, tickVars, received, emitted,
                 waitVars,
                 callVars>>

\* the client-updates-config message is handed to the connection, not waiting
ClientUpdatesSend(k) ==
  /\ openCalls[k].pc = "cucLoad"
  /\ Len(sent) < MaxSent
  /\ ConnectionSend(<<"open", k>>, "ClientUpdatesConfigMessage",
                    ClientUpdatesBody, FALSE)
  /\ openCalls' = Step(k, "cucWait", "clientUpdatesConfig")
  /\ UNCHANGED <<isOpen, credVars, pollVars, tickVars, received, emitted,
                 waitVars, callVars>>

\* the client-updates-config send resolves: openConnection returns this
ClientUpdatesDone(k) ==
  /\ openCalls[k].pc = "cucWait"
  /\ openCalls' = Step(k, "resolved", "clientUpdatesConfigDone")
  /\ UNCHANGED <<connVars, credVars, pollVars, tickVars, received, emitted,
                 waitVars,
                 callVars>>

\* an awaited step rejects: openConnection has no handler and rejects with
\* the same error
StepFailed(k) ==
  /\ openCalls[k].pc \in {"connecting", "introWait", "verifying",
                          "connStateWait", "cucWait"}
  /\ openCalls' = [openCalls EXCEPT ![k].pc = "rejected",
                                    ![k].error = StepError(openCalls[k].pc)]
  /\ UNCHANGED <<connVars, credVars, pollVars, tickVars, received, emitted,
                 waitVars, callVars>>

\* closeConnection(): connection.close(); the connection fails the responses
\* it still waits for
CloseConnection ==
  /\ isOpen' = ClosedConnection
  /\ openCalls' = [k \in OpenIds |->
                     IF FailedByClose(openCalls[k].pc)
                       THEN [openCalls[k] EXCEPT !.pc = "rejected",
                                                 !.error = "closed"]
                       ELSE openCalls[k]]
  /\ UNCHANGED <<sent, credVars, pollVars, tickVars, received, emitted,
                 waitVars, callVars>>

\* ------------------------------------------------ messageOfType, inbound
WaitIds == 1..MaxWaits
Timeouts == {1, 2}
MsgTypes == {"SetStateMessage", "DeviceInfoMessage", "CryptoPairingMessage"}
Parts == {"nowPlayingInfo", "supportedCommands", "playbackQueue"}

\* an inbound message: its type, whether its payload is null, and the
\* sub-payloads a state message carries
StateMsgs ==
  {[type |-> "SetStateMessage", null |-> TRUE, parts |-> {}]}
    \cup {[type |-> "SetStateMessage", null |-> FALSE, parts |-> ps] :
            ps \in SUBSET Parts}
PlainMsgs == {[type |-> t, null |-> FALSE, parts |-> {}] : t \in MsgTypes}
InboundMsgs == StateMsgs \cup PlainMsgs

\* the message types waited for, and the messages of these types
WaitTypes == {"SetStateMessage", "DeviceInfoMessage"}
WaitMsgs == {m \in PlainMsgs : m.type \in WaitTypes}

UnusedWait == [state |-> "unused", type |-> "none", remaining |-> 0,
               listening |-> FALSE, armed |-> FALSE, regAt |-> 0,
               settledAt |-> 0, error |-> "none"]

\* (mutant) the last of resolve and reject decides the outcome
SettleLast(state, outcome) == outcome

\* a promise settles once: resolve and reject of a settled promise do nothing
Settle(state, outcome) == IF state = "pending" THEN outcome ELSE state

\* (mutant) any message satisfies the wait
MatchesAny(message, type) == TRUE

\* the listener of messageOfType: whether a message satisfies the wait
Matches(message, type) == message.type = type

\* the listener of messageOfType stays registered after a call of it exactly
\* when the message did not match
ListeningAfterMessage(message, type) == ~Matches(message, type)

\* (mutant) the timer callback leaves the listener registered
ListeningAfterTimeoutKept(listening) == listening

\* the timer callback of messageOfType takes the listener out
ListeningAfterTimeout(listening) == FALSE

\* setTimeout(callback, timeout * 1000): the seconds until the timer expires
TimerDelay(timeout) == timeout

\* messageOfType(type, timeout): the timer is set and the 'message' listener
\* registered
MessageOfType(w, type, timeout) ==
  /\ waits[w].state = "unused"
  /\ \A v \in WaitIds : v < w => waits[v].state # "unused"
  /\ waits' = [waits EXCEPT ![w] =
                 [state |-> "pending", type |-> type,
                  remaining |-> TimerDelay(timeout), listening |-> TRUE,
                  armed |-> TRUE, regAt |-> Len(received), settledAt |-> 0,
                  error |-> "none"]]
  /\ LET ts == OnNewListener(TimerState, "message")
     IN  /\ queuePollTimer' = ts.timer
         /\ activeTimers' = ts.active
  /\ UNCHANGED <<connVars, credVars, listeners, tickVars, openCalls, received, emitted,
                 callVars>>

\* the wait w after its timer callback has run
AfterTimeout(wait, at) ==
  [wait EXCEPT !.armed = FALSE,
               !.state = Settle(@, "rejected"),
               !.error = IF wait.state = "pending" THEN "timeout" ELSE @,
               !.settledAt = IF wait.state = "pending" THEN at ELSE @,
               !.listening = ListeningAfterTimeout(@)]

\* the timer of messageOfType expires: reject, then removeListener
TimerFired(w) ==
  /\ waits[w].armed
  /\ waits[w].remaining = 0
  /\ waits' = [waits EXCEPT ![w] = AfterTimeout(@, Len(received))]
  /\ LET ts == OnRemoveListener(TimerState, "message", listeners)
     IN  /\ queuePollTimer' = ts.timer
         /\ activeTimers' = ts.active
  /\ UNCHANGED <<connVars, credVars, listeners, tickVars, openCalls, received, emitted,
                 callVars>>

\* a second passes; a timer fires when its time is up, before more time passes
Advance ==
  /\ \E w \in WaitIds : waits[w].armed
  /\ \A w \in WaitIds : waits[w].armed => waits[w].remaining > 0
  /\ waits' = [w \in WaitIds |->
                 IF waits[w].armed
                   THEN [waits[w] EXCEPT !.remaining = @ - 1]
                   ELSE waits[w]]
  /\ UNCHANGED <<connVars, credVars, pollVars, tickVars, openCalls, received, emitted,
                 callVars>>

\* the wait after emit('message', message) has called its listener; at is
\* the position of the message among those received
AfterMessage(wait, message, at) ==
  IF wait.listening
    THEN [wait EXCEPT
            !.state = IF Matches(message, wait.type)
                        THEN Settle(@, "resolved") ELSE @,
            !.settledAt = IF Matches(message, wait.type) /\ wait.state = "pending"
                            THEN at ELSE @,
            !.listening = ListeningAfterMessage(message, wait.type)]
    ELSE wait

\* onReceiveMessage after emit('message'): the listeners and the timer after
\* the notifications of a state message
DispatchState(st, message) ==
  IF message.type # "SetStateMessage" THEN st
  ELSE IF message.null THEN EmitEvent(st, "nowPlaying")
  ELSE LET s1 == IF "nowPlayingInfo" \in message.parts
                   THEN EmitEvent(st, "nowPlaying") ELSE st
           s2 == IF "supportedCommands" \in message.parts
                   THEN EmitEvent(s1, "supportedCommands") ELSE s1
       IN  IF "playbackQueue" \in message.parts
             THEN EmitEvent(s2, "playbackQueue") ELSE s2

\* no inbound message yet, nothing emitted
NothingEmitted ==
  [of |-> [type |-> "none", null |-> FALSE, parts |-> {}], notes |-> <<>>]

Note(event, payload) == [event |-> event, payload |-> payload]

\* (mutant) the three sub-payloads are tried as alternatives: only the first
\* one present is emitted
PartEmittedFirstOnly(message, part) ==
  /\ part \in message.parts
  /\ \/ part = "nowPlayingInfo"
     \/ part = "supportedCommands" /\ "nowPlayingInfo" \notin message.parts
     \/ part = "playbackQueue" /\ message.parts = {"playbackQueue"}

\* onReceiveMessage: whether the notification of a sub-payload is emitted for
\* a state message with a payload
PartEmitted(message, part) == part \in message.parts

\* onReceiveMessage: the notifications emitted for a message, in order
Notifications(message) ==
  <<Note("message", "message")>> \o
    (IF message.type # "SetStateMessage" THEN <<>>
     ELSE IF message.null THEN <<Note("nowPlaying", "null")>>
     ELSE (IF PartEmitted(message, "nowPlayingInfo")
             THEN <<Note("nowPlaying", "nowPlayingInfo")>> ELSE <<>>)
          \o (IF PartEmitted(message, "supportedCommands")
                THEN <<Note("supportedCommands", "supportedCommands")>> ELSE <<>>)
          \o (IF PartEmitted(message, "playbackQueue")
                THEN <<Note("playbackQueue", "playbackQueue")>> ELSE <<>>))

\* the connection emits 'message': onReceiveMessage(message)
Receive(message) ==
  /\ ResponseArrives(isOpen)
  /\ Len(received) < MaxInbound
  /\ received' = Append(received, message.type)
  /\ emitted' = [of |-> message, notes |-> Notifications(message)]
  /\ waits' = [w \in WaitIds |-> AfterMessage(waits[w], message, Len(received) + 1)]
  /\ LET removed == \E w \in WaitIds :
                      waits[w].listening /\ Matches(message, waits[w].type)
         ts0 == IF removed
                  THEN OnRemoveListener(TimerState, "message", listeners)
                  ELSE TimerState
         st == DispatchState([ls |-> listeners, ts |-> ts0], message)
     IN  /\ listeners' = st.ls
         /\ queuePollTimer' = st.ts.timer
         /\ activeTimers' = st.ts.active
  /\ UNCHANGED <<connVars, credVars, tickVars, openCalls, callVars>>

\* ----------------------------------------------------------- key commands
KeyIds == 1..MaxKeyCalls
\* AppleTV.Key, in the order of the enumeration
KeyList == <<"Up", "Down", "Left", "Right", "Menu", "Play", "Pause", "Next",
             "Previous", "Suspend", "Select">>
Keys == {KeyList[i] : i \in 1..Len(KeyList)}
KeyNumber(key) == (CHOOSE i \in 1..Len(KeyList) : KeyList[i] = key) - 1

\* sendKeyCommand: the usage page and usage code of each key
KeyUsage(key) ==
  CASE key = "Up" -> <<1, 140>>
    [] key = "Down" -> <<1, 141>>
    [] key = "Left" -> <<1, 139>>
    [] key = "Right" -> <<1, 138>>
    [] key = "Menu" -> <<1, 134>>
    [] key = "Play" -> <<12, 176>>
    [] key = "Pause" -> <<12, 177>>
    [] key = "Next" -> <<12, 181>>
    [] key = "Previous" -> <<12, 182>>
    [] key = "Suspend" -> <<1, 130>>
    [] key = "Select" -> <<1, 137>>

\* number.UInt16toBufferBE: two bytes, the high one first
UInt16toBufferBE(n) == <<(n \div 256) % 256, n % 256>>

HidTime == <<67, 137, 34, 207, 8, 2, 0, 0>>
HidHeader == <<0, 0, 0, 0, 0, 0, 0, 0, 1, 0, 0, 0, 0, 0, 0, 0, 2, 0, 0, 0,
               32, 0, 0, 0, 3, 0, 0, 0, 1, 0, 0, 0, 0, 0, 0>>
HidTail == <<0, 0, 0, 0, 0, 0, 0, 1, 0, 0, 0>>

\* sendKeyPress: the six bytes naming the usage page, the usage and the
\* direction of the event
HidData(usePage, usage, down) ==
  UInt16toBufferBE(usePage) \o UInt16toBufferBE(usage)
    \o (IF down THEN UInt16toBufferBE(1) ELSE UInt16toBufferBE(0))

\* sendKeyPress: the body of the SendHIDEventMessage
HidBody(usePage, usage, down) ==
  [hidEventData |-> HidTime \o HidHeader \o HidData(usePage, usage, down)
                      \o HidTail]

\* sendKeyPressAndRelease: the direction of the first event
FirstDown == TRUE

\* (mutant) the second event is a press as well
SecondDownAgain == TRUE

\* sendKeyPressAndRelease: the direction of the second event
SecondDown == FALSE

\* sendKeyPressAndRelease: what follows the press send once it has resolved
AfterPress == "releaseLoad"

\* (mutant) the release follows the press send whatever its outcome
AfterFailedPressReleases == "releaseLoad"

\* sendKeyPressAndRelease: what follows the press send once it has rejected;
\* then() has no rejection handler
AfterFailedPress == "rejected"

IdleKey == [pc |-> "idle", key |-> "none", error |-> "none"]

\* sendKeyCommand(key) up to the first sendMessage, which awaits load(). The
\* calls are interchangeable (nothing depends on which was made first), so
\* they are numbered in the order of their keys.
SendKeyCommand(c, key) ==
  /\ keyCalls[c].pc = "idle"
  /\ \A d \in KeyIds :
       d < c => /\ keyCalls[d].pc # "idle"
                /\ KeyNumber(keyCalls[d].key) <= KeyNumber(key)
  /\ keyCalls' = [keyCalls EXCEPT ![c] = [pc |-> "pressLoad", key |-> key,
                                          error |-> "none"]]
  /\ UNCHANGED <<connVars, credVars, pollVars, tickVars, openCalls, received, emitted,
                 waitVars, artCalls>>

\* the first event is handed to the connection, not waiting
KeyPressSend(c) ==
  /\ keyCalls[c].pc = "pressLoad"
  /\ Len(sent) < MaxSent
  /\ LET u == KeyUsage(keyCalls[c].key)
     IN  ConnectionSend(<<"key", c>>, "SendHIDEventMessage",
                        HidBody(u[1], u[2], FirstDown), FALSE)
  /\ keyCalls' = [keyCalls EXCEPT ![c].pc = "pressWait"]
  /\ UNCHANGED <<isOpen, credVars, pollVars, tickVars, openCalls, received, emitted,
                 waitVars, artCalls>>

\* the first send resolves: the second sendKeyPress, whose sendMessage awaits
\* load()
KeyPressDone(c) ==
  /\ keyCalls[c].pc = "pressWait"
  /\ keyCalls' = [keyCalls EXCEPT ![c].pc = AfterPress]
  /\ UNCHANGED <<connVars, credVars, pollVars, tickVars, openCalls, received, emitted,
                 waitVars, artCalls>>

\* the second event is handed to the connection, not waiting
KeyReleaseSend(c) ==
  /\ keyCalls[c].pc = "releaseLoad"
  /\ Len(sent) < MaxSent
  /\ LET u == KeyUsage(keyCalls[c].key)
     IN  ConnectionSend(<<"key", c>>, "SendHIDEventMessage",
                        HidBody(u[1], u[2], SecondDown), FALSE)
  /\ keyCalls' = [keyCalls EXCEPT ![c].pc = "releaseWait"]
  /\ UNCHANGED <<isOpen, credVars, pollVars, tickVars, openCalls, received, emitted,
                 waitVars, artCalls>>

\* the second send resolves: sendKeyCommand resolves
KeyReleaseDone(c) ==
  /\ keyCalls[c].pc = "releaseWait"
  /\ keyCalls' = [keyCalls EXCEPT ![c].pc = "resolved"]
  /\ UNCHANGED <<connVars, credVars, pollVars, tickVars, openCalls, received, emitted,
                 waitVars, artCalls>>

\* a send rejects: the promise of sendKeyCommand rejects with its error
KeySendFailed(c) ==
  /\ keyCalls[c].pc \in {"pressWait", "releaseWait"}
  /\ keyCalls' = [keyCalls EXCEPT
                    ![c].pc = IF keyCalls[c].pc = "pressWait"
                                THEN AfterFailedPress ELSE "rejected",
                    ![c].error = IF keyCalls[c].pc = "pressWait"
                                   THEN "press" ELSE "release"]
  /\ UNCHANGED <<connVars, credVars, pollVars, tickVars, openCalls, received, emitted,
                 waitVars, artCalls>>

\* --------------------------------------------------------- requestArtwork
ArtIds == 1..MaxArtCalls
Widths == {0, 400, 640}
Heights == {0, 400, 480}
DefaultWidth == 400
DefaultHeight == 400

\* the argument lists requestArtwork may be called with: both dimensions,
\* the width only, or none
ArtArgs ==
  {[width |-> w, height |-> h] : w \in Widths, h \in Heights}
    \cup {[width |-> w] : w \in Widths} \cup {<<>>}

\* a parameter with a default value
Param(args, name, default) ==
  IF name \in DOMAIN args THEN args[name] ELSE default

\* (mutant) the dimensions are exchanged
ArtworkOptionsSwapped(width, height) ==
  [artworkSize |-> [width |-> height, height |-> width],
   length |-> 1, location |-> 0]

\* requestArtwork: the options handed to requestPlaybackQueueWithWait
ArtworkOptions(width, height) ==
  [artworkSize |-> [width |-> width, height |-> height],
   length |-> 1, location |-> 0]

\* requestArtwork asks for a response
ArtworkWaits == TRUE

\* the responses to an artwork request: with artwork data or without
Responses == {"artwork", "noArtwork"}

\* requestArtwork after the response: the data, or the error
ArtworkOutcome(response) ==
  IF response = "artwork" THEN "resolved" ELSE "rejected"

IdleArt == [pc |-> "idle", args |-> <<>>, error |-> "none"]

\* requestArtwork(width, height) up to sendMessage, which awaits load()
RequestArtwork(a, args) ==
  /\ artCalls[a].pc = "idle"
  /\ \A b \in ArtIds : b < a => artCalls[b].pc # "idle"
  /\ artCalls' = [artCalls EXCEPT ![a] = [pc |-> "load", args |-> args,
                                          error |-> "none"]]
  /\ UNCHANGED <<connVars, credVars, pollVars, tickVars, openCalls, received, emitted,
                 waitVars, keyCalls>>

\* the playback-queue request is handed to the connection
ArtworkSend(a) ==
  /\ artCalls[a].pc = "load"
  /\ Len(sent) < MaxSent
  /\ LET w == Param(artCalls[a].args, "width", DefaultWidth)
         h == Param(artCalls[a].args, "height", DefaultHeight)
     IN  ConnectionSend(<<"art", a>>, "PlaybackQueueRequestMessage",
                        PlaybackQueueParams(ArtworkOptions(w, h), UuidId),
                        ArtworkWaits)
  /\ artCalls' = [artCalls EXCEPT ![a].pc = "wait"]
  /\ UNCHANGED <<isOpen, credVars, pollVars, tickVars, openCalls, received, emitted,
                 waitVars, keyCalls>>

\* the response arrives: its artwork data is returned, or "No artwork
\* available" thrown
ArtworkResponse(a, response) ==
  /\ artCalls[a].pc = "wait"
  /\ artCalls' = [artCalls EXCEPT
                    ![a].pc = ArtworkOutcome(response),
                    ![a].error = IF response = "artwork" THEN "none"
                                 ELSE "No artwork available"]
  /\ UNCHANGED <<connVars, credVars, pollVars, tickVars, openCalls, received, emitted,
                 waitVars, keyCalls>>

\* the send rejects: requestArtwork rejects with its error
ArtworkFailed(a) ==
  /\ artCalls[a].pc = "wait"
  /\ artCalls' = [artCalls EXCEPT ![a].pc = "rejected", ![a].error = "send"]
  /\ UNCHANGED <<connVars, credVars, pollVars, tickVars, openCalls, received, emitted,
                 waitVars, keyCalls>>

\* ------------------------------------------------------------------ Init
Init ==
  /\ isOpen = FALSE
  /\ sent = <<>>
  /\ pairingId = UuidId
  /\ credentials = NoCreds
  /\ credKeys = [c \in CredIds |-> [readKey |-> NoKey, writeKey |-> NoKey]]
  /\ listeners = [e \in Events |-> [on |-> 0, once |-> 0]]
  /\ queuePollTimer = Null
  /\ activeTimers = {}
  /\ pollPending = 0
  /\ openCalls = [k \in OpenIds |-> IdleOpen]
  /\ received = <<>>
  /\ emitted = NothingEmitted
  /\ waits = [w \in WaitIds |-> UnusedWait]
  /\ keyCalls = [c \in KeyIds |-> IdleKey]
  /\ artCalls = [a \in ArtIds |-> IdleArt]

\* ------------------------------------------------------- specifications
OpenStep(k) ==
  \/ ConnectionOpened(k)
  \/ IntroductionSend(k)
  \/ IntroductionAcked(k)
  \/ VerifyDone(k)
  \/ ConnectionStateSend(k)
  \/ ConnectionStateDone(k)
  \/ ClientUpdatesSend(k)
  \/ ClientUpdatesDone(k)
  \/ StepFailed(k)

\* the handshake: opens with and without credentials, closes, and the polling
\* timer of a 'nowPlaying' listener
Next ==
  \/ \E c \in CredIds \cup {NoCreds} : OpenConnection(1, c)
  \/ OpenStep(1)
  \/ CloseConnection
  \/ AddListener("nowPlaying", "on")
  \/ RemoveListener("nowPlaying", "on")
  \/ \E t \in activeTimers : PollTick(t)
  \/ PollSend

Spec == Init /\ [][Next]_vars

\* the listeners: every event and kind of listener, inbound messages, an open
\* without credentials and closes
PollNext ==
  \/ \E e \in Events, kind \in Kinds : AddListener(e, kind)
  \/ \E e \in Events, kind \in Kinds : RemoveListener(e, kind)
  \/ \E e \in Events : RemoveAllListeners(e)
  \/ \E m \in InboundMsgs : Receive(m)
  \/ OpenConnection(1, NoCreds)
  \/ ConnectionOpened(1)
  \/ IntroductionSend(1)
  \/ IntroductionAcked(1)
  \/ StepFailed(1)
  \/ CloseConnection

SpecPoll == Init /\ [][PollNext]_vars

\* two openConnection calls on one session, one after the other or the
\* second before the first has finished, and closes
OpensNext ==
  \/ \E c \in CredIds \cup {NoCreds} : OpenConnection(1, c)
  \/ \E c \in CredIds \cup {NoCreds} : OpenConnection(2, c)
  \/ OpenStep(1)
  \/ OpenStep(2)
  \/ CloseConnection

SpecOpens == Init /\ [][OpensNext]_vars

\* the waits: messageOfType calls, inbound messages, timers, an open without
\* credentials and closes
WaitNext ==
  \/ \E w \in WaitIds, t \in WaitTypes, timeout \in Timeouts :
       MessageOfType(w, t, timeout)
  \/ \E w \in WaitIds : TimerFired(w)
  \/ Advance
  \/ \E m \in WaitMsgs : Receive(m)
  \/ OpenConnection(1, NoCreds)
  \/ ConnectionOpened(1)
  \/ IntroductionSend(1)
  \/ IntroductionAcked(1)
  \/ StepFailed(1)
  \/ CloseConnection

SpecWait == Init /\ [][WaitNext]_vars

\* the key commands
KeyNext ==
  \/ \E c \in KeyIds, key \in Keys : SendKeyCommand(c, key)
  \/ \E c \in KeyIds :
       KeyPressSend(c) \/ KeyPressDone(c) \/ KeyReleaseSend(c)
         \/ KeyReleaseDone(c) \/ KeySendFailed(c)

SpecKeys == Init /\ [][KeyNext]_vars

\* the artwork requests
ArtNext ==
  \/ \E a \in ArtIds, args \in ArtArgs : RequestArtwork(a, args)
  \/ \E a \in ArtIds : ArtworkSend(a) \/ ArtworkFailed(a)
  \/ \E a \in ArtIds, r \in Responses : ArtworkResponse(a, r)

SpecArt == Init /\ [][ArtNext]_vars

\* ================================================================ claims
FromOpen(k) == SelectSeq(sent, LAMBDA m : m.from = <<"open", k>>)
Types(msgs) == [i \in 1..Len(msgs) |-> msgs[i].type]
ResolvedOpen(k) == openCalls[k].pc = "resolved"
Resolves(k) == openCalls[k].pc # "resolved" /\ openCalls'[k].pc = "resolved"
Rejects(k) == openCalls[k].pc # "rejected" /\ openCalls'[k].pc = "rejected"

\* C1 as stated: at the moment openConnection() without credentials resolves,
\* the messages handed to the connection are exactly one DeviceInfoMessage,
\* whatever listeners were registered. Refuted: a polling tick during the
\* handshake adds a playback-queue request.
C1_OnlyIntroductionSent ==
  [][(Resolves(1) /\ openCalls[1].creds = NoCreds)
       => (Len(sent') = 1 /\ sent'[1].type = "DeviceInfoMessage")]_vars

\* C1 amended: once openConnection() without credentials has resolved, the
\* messages that call handed to the connection are exactly one waiting
\* DeviceInfoMessage, and every other message handed to the connection is a
\* non-waiting playback-queue request of a polling tick.
C1_OpenSendsOnlyIntroduction ==
  (ResolvedOpen(1) /\ openCalls[1].creds = NoCreds) =>
    /\ Len(FromOpen(1)) = 1
    /\ FromOpen(1)[1].type = "DeviceInfoMessage"
    /\ FromOpen(1)[1].wait
    /\ \A i \in 1..Len(sent) :
         sent[i].from # <<"open", 1>> =>
           /\ sent[i].from = <<"poll", 0>>
           /\ sent[i].type = "PlaybackQueueRequestMessage"
           /\ ~sent[i].wait

\* C1 witness: an open without credentials has resolved while ticks of the
\* polling timer sent requests around the introduction
C1_Witness ==
  /\ ResolvedOpen(1) /\ openCalls[1].creds = NoCreds
  /\ Len(sent) = 3
  /\ sent[1].from = <<"poll", 0>>
  /\ sent[2].from = <<"open", 1>>

\* C2: once openConnection(credentials) has resolved, its steps happened in
\* the order introduction sent, introduction acknowledged, verification,
\* connection state sent and completed, client-updates-config sent and
\* completed; and at any time the messages of the call are a prefix of
\* introduction, connection state, client-updates-config.
C2_HandshakeOrder ==
  /\ \E n \in 0..3 :
       Types(FromOpen(1)) =
         SubSeq(<<"DeviceInfoMessage", "SetConnectionStateMessage",
                  "ClientUpdatesConfigMessage">>, 1, n)
  /\ (ResolvedOpen(1) /\ openCalls[1].creds # NoCreds) =>
       /\ openCalls[1].hist =
            <<"open", "opened", "introduction", "introductionAck", "verify",
              "connectionState", "connectionStateDone", "clientUpdatesConfig",
              "clientUpdatesConfigDone">>
       /\ Types(FromOpen(1)) =
            <<"DeviceInfoMessage", "SetConnectionStateMessage",
              "ClientUpdatesConfigMessage">>
       /\ FromOpen(1)[1].wait /\ ~FromOpen(1)[2].wait /\ ~FromOpen(1)[3].wait

\* C2 witness: an open with credentials has resolved
C2_Witness ==
  /\ ResolvedOpen(1) /\ openCalls[1].creds = "credA"
  /\ credKeys["credA"].readKey # NoKey

\* C9 as stated: when openConnection rejects, it rejects with the error of
\* the step that failed, and a connection the call had opened is closed by
\* then. Refuted: nothing closes the connection.
C9_FailedOpenIsClosed ==
  [][Rejects(1) =>
       /\ openCalls'[1].error # "none"
       /\ (openCalls[1].opened => ~isOpen')]_vars

FromKey(c) == SelectSeq(sent, LAMBDA m : m.from = <<"key", c>>)

\* what a SendHIDEventMessage says: the usage page, the usage and the
\* direction, read back from bytes 44 to 49 of its event data
HidEvent(body) ==
  LET d == body.hidEventData
  IN  <<d[44] * 256 + d[45], d[46] * 256 + d[47], d[48] * 256 + d[49]>>

\* C5: every sendKeyCommand call hands the connection at most two messages,
\* both non-waiting SendHIDEventMessages carrying the key's usage page and
\* usage, the first a press (1) and the second a release (0); the release
\* is handed over only after the press send has resolved, and a resolved
\* call has sent exactly the two; also with several calls in flight.
C5_PressThenRelease ==
  \A c \in KeyIds :
    LET mine == FromKey(c)
        call == keyCalls[c]
        pressDone == \/ call.pc \in {"releaseLoad", "releaseWait", "resolved"}
                     \/ (call.pc = "rejected" /\ call.error = "release")
    IN  /\ Len(mine) <= 2
        /\ \A i \in 1..Len(mine) :
             /\ mine[i].type = "SendHIDEventMessage"
             /\ ~mine[i].wait
             /\ Len(mine[i].body.hidEventData) = 60
             /\ HidEvent(mine[i].body) =
                  <<KeyUsage(call.key)[1], KeyUsage(call.key)[2],
                    IF i = 1 THEN 1 ELSE 0>>
        /\ Len(mine) = 2 => pressDone
        /\ call.pc = "resolved" => Len(mine) = 2
        /\ call.pc \in {"idle", "pressLoad"} => Len(mine) = 0

\* C5 witness: two calls for different keys were in flight together, their
\* presses handed over before either release, and both have resolved
C5_Witness ==
  /\ keyCalls[1].pc = "resolved" /\ keyCalls[1].key = "Menu"
  /\ keyCalls[2].pc = "resolved" /\ keyCalls[2].key = "Play"
  /\ Len(sent) = 4
  /\ sent[1].from = <<"key", 2>>
  /\ sent[2].from = <<"key", 1>>

FromArt(a) == SelectSeq(sent, LAMBDA m : m.from = <<"art", a>>)

\* C6: a requestArtwork(w, h) call whose sendMessage has got past load() has
\* handed the connection exactly one message, a waiting playback-queue
\* request with artworkWidth = w, artworkHeight = h, length = 1,
\* location = 0 and no artworkSize, whatever the outcome of the call; before
\* that it has handed over none.
C6_ArtworkRequest ==
  \A a \in ArtIds :
    LET mine == FromArt(a)
        call == artCalls[a]
    IN  /\ call.pc \in {"idle", "load"} => Len(mine) = 0
        /\ call.pc \in {"wait", "resolved", "rejected"} =>
             /\ Len(mine) = 1
             /\ mine[1].type = "PlaybackQueueRequestMessage"
             /\ mine[1].wait
             /\ "artworkSize" \notin DOMAIN mine[1].body
             /\ {"artworkWidth", "artworkHeight", "length", "location"}
                  \subseteq DOMAIN mine[1].body
             /\ mine[1].body.length = 1
             /\ mine[1].body.location = 0
             /\ DOMAIN call.args = {"width", "height"} =>
                  /\ mine[1].body.artworkWidth = call.args.width
                  /\ mine[1].body.artworkHeight = call.args.height

\* C6 witness: requestArtwork(640, 480) has failed with "No artwork
\* available" after its request was handed over
C6_Witness ==
  /\ artCalls[1].pc = "rejected"
  /\ artCalls[1].error = "No artwork available"
  /\ artCalls[1].args = [width |-> 640, height |-> 480]
  /\ Len(sent) = 1

Pending(w) == waits[w].state = "pending"
TimerExpires(w) == waits[w].armed /\ ~waits'[w].armed

\* C7: a wait still pending when its timer expires rejects with the timeout
\* error at that moment, neither earlier nor by anything else, and its
\* 'message' listener is removed; every other wait is left exactly as it was.
C7_TimeoutRejectsAndRemoves ==
  [][\A w \in WaitIds :
       /\ TimerExpires(w) =>
            /\ waits[w].remaining = 0
            /\ Pending(w) => /\ waits'[w].state = "rejected"
                             /\ waits'[w].error = "timeout"
            /\ ~waits'[w].listening
            /\ \A v \in WaitIds \ {w} : waits'[v] = waits[v]
       /\ (Pending(w) /\ waits'[w].state = "rejected") => TimerExpires(w)]_vars

\* C7 witness: the first wait has timed out while the second, made with a
\* longer timeout, is still pending and registered
C7_Witness ==
  /\ waits[1].state = "rejected" /\ waits[1].error = "timeout"
  /\ ~waits[1].listening
  /\ waits[2].state = "pending" /\ waits[2].listening /\ waits[2].armed
  /\ waits[2].remaining = 1

\* C8 as stated: when the connection is closed, no wait is pending any more.
\* Refuted: closeConnection leaves the waits of messageOfType alone.
C8_CloseFailsPendingWaits ==
  [][(isOpen /\ ~isOpen') =>
       \A w \in WaitIds :
         Pending(w) => /\ waits'[w].state = "rejected"
                       /\ waits'[w].error = "closed"
                       /\ ~waits'[w].listening]_vars

\* C10: a wait is resolved only by a message of its type received after the
\* call, and by the first such message: a resolved wait holds the position
\* of a later message of its type with none of that type in between, and a
\* wait that is pending, or has timed out, has seen none of its type since
\* the call.
C10_NextMessageAfterCall ==
  \A w \in WaitIds :
    LET wait == waits[w]
        since(n) == {i \in (wait.regAt + 1)..n : received[i] = wait.type}
    IN  /\ wait.state = "resolved" =>
             /\ wait.settledAt > wait.regAt
             /\ wait.settledAt <= Len(received)
             /\ since(wait.settledAt) = {wait.settledAt}
        /\ wait.state = "pending" => since(Len(received)) = {}
        /\ wait.state = "rejected" => since(wait.settledAt) = {}

\* C10 witness: a message of the awaited type was received before the call,
\* the wait stayed pending, and the next message of that type resolved it
C10_Witness ==
  /\ waits[1].state = "resolved"
  /\ waits[1].regAt = 1
  /\ received = <<waits[1].type, waits[1].type>>
  /\ waits[1].settledAt = 2

EventsOf(notes) == [i \in 1..Len(notes) |-> notes[i].event]
CountOf(notes, event) == Cardinality({i \in 1..Len(notes) : notes[i].event = event})

\* C11: for every inbound message the session emits exactly one 'message'
\* notification, first; a message that is not a SetStateMessage emits nothing
\* more; a SetStateMessage with a null payload emits exactly one
\* nowPlaying(null) more; one with a payload emits nowPlaying,
\* supportedCommands and playbackQueue each once exactly when that
\* sub-payload is in the message, independently of the other two.
C11_InboundDispatch ==
  emitted # NothingEmitted =>
    LET m == emitted.of
        notes == emitted.notes
    IN  /\ Len(notes) >= 1
        /\ notes[1] = Note("message", "message")
        /\ CountOf(notes, "message") = 1
        /\ m.type # "SetStateMessage" => Len(notes) = 1
        /\ (m.type = "SetStateMessage" /\ m.null) =>
             notes = <<Note("message", "message"), Note("nowPlaying", "null")>>
        /\ (m.type = "SetStateMessage" /\ ~m.null) =>
             /\ CountOf(notes, "nowPlaying") =
                  IF "nowPlayingInfo" \in m.parts THEN 1 ELSE 0
             /\ CountOf(notes, "supportedCommands") =
                  IF "supportedCommands" \in m.parts THEN 1 ELSE 0
             /\ CountOf(notes, "playbackQueue") =
                  IF "playbackQueue" \in m.parts THEN 1 ELSE 0
             /\ Len(notes) = 1 + Cardinality(m.parts)
             /\ \A i \in 2..Len(notes) : notes[i].payload # "null"

\* C11 witness: a state message carrying supported commands and a playback
\* queue but no now-playing info was dispatched
C11_Witness ==
  /\ emitted.of = [type |-> "SetStateMessage", null |-> FALSE,
                   parts |-> {"supportedCommands", "playbackQueue"}]
  /\ EventsOf(emitted.notes) = <<"message", "supportedCommands", "playbackQueue">>

ResolvedBy(w) == Pending(w) /\ waits'[w].state = "resolved"

\* C12 as stated: a single inbound message resolves at most one pending wait,
\* the first registered of those it matches, and the others stay pending.
\* Refuted: every messageOfType call has its own 'message' listener, and one
\* message resolves all the waits for its type.
C12_OneWaitPerMessage ==
  [][/\ Cardinality({w \in WaitIds : ResolvedBy(w)}) <= 1
     /\ \A w \in WaitIds :
          ResolvedBy(w) =>
            \A v \in WaitIds :
              (v # w /\ Pending(v) /\ waits[v].type = waits[w].type)
                => (w < v /\ waits'[v].state = "pending")]_vars

FromPoll(m) == m.from = <<"poll", 0>>

\* C13 as stated: every request of a polling tick is handed to a connection
\* that is open at that time. Refuted: the tick tests isOpen, but its
\* sendMessage awaits load() before connection.send, and a closeConnection in
\* between leaves the request to be handed to the closed connection.
C13_TickSendsOnlyWhenOpen ==
  \A i \in 1..Len(sent) : FromPoll(sent[i]) => sent[i].open

\* C14 as stated: the messages of sendMessage calls of equal priority are
\* handed to the connection in the order the calls were made (requestArtwork
\* calls are numbered in the order they are made, and each makes one
\* sendMessage call of priority 0). Refuted: every sendMessage awaits its own
\* load() before connection.send, and the later call's load() may resolve
\* first.
C14_HandedOverInCallOrder ==
  \A i, j \in 1..Len(sent) :
    (i < j /\ sent[i].from[1] = "art" /\ sent[j].from[1] = "art")
      => sent[i].from[2] < sent[j].from[2]

Verified(k) == openCalls[k].pc = "verifying" /\ openCalls'[k].pc = "connStateLoad"
VerifyFails(k) == openCalls[k].pc = "verifying" /\ openCalls'[k].pc = "rejected"

\* C15 as stated: once the keys of a credentials object are written they are
\* never written again. Refuted: a later openConnection with the same object
\* verifies again and writes the keys of the new verification.
C15_KeysWrittenOnce ==
  [][\A c \in CredIds :
       credKeys[c].readKey # NoKey => credKeys'[c] = credKeys[c]]_vars

\* C15 amended: the key fields change only in the step in which the
\* verification of an openConnection call succeeds, which writes the read key
\* and the write key of that verification, both together, into the
\* credentials object the session holds at that moment and into no other;
\* this happens once for every successful verification, again on a later
\* open with the same object. Every other step, a failing verification
\* included, leaves the key fields of every credentials object unchanged.
C15_KeysWrittenByVerification ==
  [][/\ credKeys' # credKeys =>
          \E k \in OpenIds :
            /\ Verified(k)
            /\ credentials \in CredIds
            /\ credKeys'[credentials] =
                 [readKey |-> <<"read", k>>, writeKey |-> <<"write", k>>]
            /\ \A c \in CredIds \ {credentials} : credKeys'[c] = credKeys[c]
     /\ \A k \in OpenIds :
          /\ Verified(k) => credKeys'[credentials] # credKeys[credentials]
          /\ VerifyFails(k) => credKeys' = credKeys]_vars

\* C15 witness: the first open with credentials has resolved, and the
\* verification of a second open with the same credentials has written its
\* keys over those of the first
C15_Witness ==
  /\ ResolvedOpen(1) /\ openCalls[1].creds = "credA"
  /\ openCalls[2].creds = "credA" /\ openCalls[2].pc = "connStateLoad"
  /\ credKeys["credA"] = [readKey |-> <<"read", 2>>, writeKey |-> <<"write", 2>>]
  /\ credKeys["credB"] = [readKey |-> NoKey, writeKey |-> NoKey]

InProgress(k) == openCalls[k].pc \notin {"idle", "resolved", "rejected"}

\* C16 as stated: from the start of an openConnection call until it resolves
\* or rejects, pairingId keeps its value, and the introduction of the call
\* carries the value the call started with. Refuted: a second openConnection
\* with other credentials, made before the first has finished, sets
\* pairingId at once, and the introduction of the first call, built after
\* connection.open() has resolved, carries the new value.
C16_PairingIdStable ==
  [][\A k \in OpenIds :
       /\ InProgress(k) => pairingId' = pairingId
       /\ \A i \in 1..Len(sent') :
            (sent'[i].from = <<"open", k>> /\ sent'[i].type = "DeviceInfoMessage"
               /\ openCalls[k].creds # NoCreds)
              => sent'[i].body.uniqueIdentifier = PairingIdOf(openCalls[k].creds)]_vars

Settled(w) == waits[w].state \in {"resolved", "rejected"}
Registered == {w \in WaitIds : waits[w].listening}

\* C17: the promise of a messageOfType call settles once: a pending wait
\* resolves only in a step that receives a message of its type while its
\* listener is registered, rejects only in the step its timer expires, and
\* once settled keeps its outcome and has no listener. The timer of a
\* resolved wait, when it expires, changes neither the outcome nor the
\* registered listeners, and a message of the type of a wait that has
\* timed out does not resolve it.
C17_SettlesOnce ==
  [][\A w \in WaitIds :
       /\ Settled(w) =>
            /\ waits'[w].state = waits[w].state
            /\ waits'[w].error = waits[w].error
            /\ waits'[w].settledAt = waits[w].settledAt
            /\ ~waits[w].listening /\ ~waits'[w].listening
       /\ (Settled(w) /\ TimerExpires(w)) =>
            /\ Registered' = Registered
            /\ listeners' = listeners
            /\ \A v \in WaitIds : waits'[v].state = waits[v].state
       /\ ResolvedBy(w) =>
            /\ waits[w].listening
            /\ Len(received') = Len(received) + 1
            /\ received'[Len(received')] = waits[w].type
            /\ ~TimerExpires(w)
       /\ (Pending(w) /\ waits'[w].state = "rejected") =>
            /\ TimerExpires(w)
            /\ received' = received]_vars

\* C17 witness: the first wait was resolved by a message and its timer has
\* expired since; the second timed out, and a message of its type was
\* received afterwards
C17_Witness ==
  /\ waits[1].state = "resolved" /\ ~waits[1].armed /\ waits[1].settledAt = 1
  /\ waits[2].state = "rejected" /\ waits[2].error = "timeout"
  /\ Len(received) = 2
  /\ received[2] = waits[2].type
  /\ waits[2].settledAt = 1

Releases(msgs) == SelectSeq(msgs, LAMBDA m : HidEvent(m.body)[3] = 0)

\* C18: a sendKeyCommand call whose press send has failed is rejected with
\* the error of the press send and has handed the connection the press
\* alone, never a release; a call that has handed over a release is one
\* whose press send had resolved; and a rejected call carries the error of
\* the send that failed.
C18_NoReleaseAfterFailedPress ==
  \A c \in KeyIds :
    LET mine == FromKey(c)
        call == keyCalls[c]
    IN  /\ call.error = "press" =>
             /\ call.pc = "rejected"
             /\ Len(mine) = 1
             /\ HidEvent(mine[1].body)[3] = 1
        /\ Len(Releases(mine)) > 0 =>
             /\ Len(Releases(mine)) = 1
             /\ call.error # "press"
             /\ call.pc \in {"releaseWait", "resolved", "rejected"}
        /\ call.pc = "rejected" =>
             /\ call.error \in {"press", "release"}
             /\ call.error = "release" <=> Len(mine) = 2

\* C18 witness: the press send of the first call has failed and the call
\* is rejected without a release, while the second call went through
C18_Witness ==
  /\ keyCalls[1].pc = "rejected" /\ keyCalls[1].error = "press"
  /\ Len(FromKey(1)) = 1
  /\ keyCalls[2].pc = "resolved"
  /\ Len(FromKey(2)) = 2

\* C19 as stated: every introduction is handed to the connection with
\* session credentials that carry no keys, so it is not encrypted. Refuted:
\* a second openConnection sends its introduction while this.credentials
\* still is the object of the first open, with the keys its verification
\* wrote.
C19_IntroductionNeverEncrypted ==
  \A i \in 1..Len(sent) :
    (sent[i].from[1] = "open" /\ sent[i].type = "DeviceInfoMessage")
      => ~sent[i].enc

====
